---- MODULE Spec2Model ----
(***************************************************************************)
(* Model of the interactive list filter of justjs (src/style.js,           *)
(* filterItemsFromList and its wrappers) and of the raw key decoder it is  *)
(* driven by (handleKeysPress, helpers/terminal.js).                       *)
(*                                                                         *)
(* A JavaScript string is a sequence of characters; a character is a TLA+  *)
(* string ("a", "[", "ESC", ...).  Array indices are 0-based as in the     *)
(* source; TLA+ sequences are 1-based, so a[i] in the source is a[i + 1].  *)
(***************************************************************************)
EXTENDS Integers, Sequences, FiniteSets, TLC

\* ------------------------------------------------------------------ bounds

\* Longest query text the model lets the user type (the code has no limit).
MaxQuery == 2

\* Number of bytes of a free byte feed given to the bare key decoder.
MaxFeed == 3

\* ------------------------------------------------------------ characters

ESC == "ESC"
CR == "CR"
DEL == "DEL"
TAB == "TAB"
SP == " "
BULLET == "BULLET"
FISHEYE == "FISHEYE"
CIRCLE == "CIRCLE"

UpperChars ==
  << "A", "B", "C", "D", "E", "F", "G", "H", "I", "J", "K", "L", "M",
     "N", "O", "P", "Q", "R", "S", "T", "U", "V", "W", "X", "Y", "Z" >>

LowerChars ==
  << "a", "b", "c", "d", "e", "f", "g", "h", "i", "j", "k", "l", "m",
     "n", "o", "p", "q", "r", "s", "t", "u", "v", "w", "x", "y", "z" >>

DigitChars == << "0", "1", "2", "3", "4", "5", "6", "7", "8", "9" >>

\* String.fromCharCode on the ASCII ranges the decoder uses.
fromCharCode(i) ==
  IF i \in 65..90 THEN UpperChars[i - 64]
  ELSE IF i \in 97..122 THEN LowerChars[i - 96]
  ELSE DigitChars[i - 47]

\* `${i}` for a one-digit number.
digitString(i) == DigitChars[i + 1]

\* ------------------------------------------------------- string methods

\* s.indexOf(sub) + 1 (0 when sub does not occur in s).
indexOf(s, sub) ==
  LET hits == { i \in 1..(Len(s) - Len(sub) + 1) :
                  SubSeq(s, i, i + Len(sub) - 1) = sub }
  IN IF hits = {} THEN 0 ELSE CHOOSE i \in hits : \A j \in hits : i <= j

includes(s, sub) == indexOf(s, sub) # 0

\* s.replace(sub, ''): the first occurrence of the string sub is removed.
replaceFirst(s, sub) ==
  LET i == indexOf(s, sub)
  IN IF i = 0 THEN s
     ELSE SubSeq(s, 1, i - 1) \o SubSeq(s, i + Len(sub), Len(s))

\* s.padStart(targetLength, padString)
padStart(s, targetLength, padString) ==
  IF targetLength <= Len(s) \/ padString = << >> THEN s
  ELSE [ i \in 1..(targetLength - Len(s)) |->
           padString[((i - 1) % Len(padString)) + 1] ] \o s

\* s.slice(0, s.length - 1)
dropLast(s) == IF s = << >> THEN s ELSE SubSeq(s, 1, Len(s) - 1)

\* The pattern that filterListItems is given when there is no query.
MatchAll == << ".", "*" >>

\* item.match(query): query is compiled as a regular expression.  The model's
\* queries are '.*' or made of letters, for which the match is a substring
\* test.
match(item, query) == IF query = MatchAll THEN TRUE ELSE includes(item, query)

\* ------------------------------------------------------- values of options

\* An option that is not given (opt?.x is undefined).
Undefined == << "undefined" >>

\* a ?? b
Nullish(a, b) == IF a = Undefined THEN b ELSE a

DefaultIndicator == << BULLET >>
DefaultSelectedPrefix == << SP, FISHEYE, SP >>
DefaultUnselectedPrefix == << SP, CIRCLE, SP >>
DefaultPrompt == << ">", SP >>
DefaultPlaceHolder == << "F", "i", "l", "t", "e", "r", ".", ".", "." >>

\* The value of selection after x % 0.
NaN == -1

\* ----------------------------------------------------------------- items

\* A list entry given by the caller: a string s is [obj |-> FALSE, text |-> s,
\* value |-> s], an object is [obj |-> TRUE, text |-> ..., value |-> ...].
buildItems(list) ==
  [ i \in 1..Len(list) |->
      IF list[i].obj
      THEN [ text |-> list[i].text, value |-> list[i].value ]
      ELSE [ text |-> list[i].text, value |-> list[i].text ] ]

\* findItem returns the first entry with that text; << >> stands for undefined,
\* << item >> for a found item.
findItem(list, value) ==
  LET hits == { i \in 1..Len(list) : list[i].text = value }
  IN IF hits = {} THEN << >>
     ELSE << list[CHOOSE i \in hits : \A j \in hits : i <= j] >>

RECURSIVE findItems(_, _)
findItems(list, values) ==
  IF values = << >> THEN << >>
  ELSE findItem(list, Head(values)) \o findItems(list, Tail(values))

\* ---------------------------------------------------- display decoration
\* g is the module's glyph state: [indicator, selectedPrefix, unselectedPrefix].

applySelectionIndicator(g, item) ==
  IF includes(item, g.indicator) THEN item
  ELSE padStart(item, Len(item) + Len(g.indicator), g.indicator)

removeSelectionIndicator(g, item) == replaceFirst(item, g.indicator)

applySelectionPrefix(g, item) ==
  IF includes(item, g.selectedPrefix) THEN item
  ELSE padStart(item, Len(item) + Len(g.selectedPrefix), g.selectedPrefix)

removeSelectionPrefix(g, item) == replaceFirst(item, g.selectedPrefix)

applyUnselectionPrefix(g, item) ==
  IF includes(item, g.unselectedPrefix) THEN item
  ELSE padStart(item, Len(item) + Len(g.unselectedPrefix), g.unselectedPrefix)

removeUnselectionPrefix(g, item) == replaceFirst(item, g.unselectedPrefix)

\* s.has(x) for a Set kept as the sequence of its members in insertion order.
has(bucket, x) == \E i \in 1..Len(bucket) : bucket[i] = x

\* list.filter(p) with p given as the set of indices that pass.
RECURSIVE filterSeq(_, _, _)
filterSeq(list, keep, i) ==
  IF i > Len(list) THEN << >>
  ELSE (IF i \in keep THEN << list[i] >> ELSE << >>) \o filterSeq(list, keep, i + 1)

\* ------------------------------------------------- filterItemsFromList
\* The closure of one call.  c holds what the call never changes after its
\* first lines: [list, buildItemsList, placeHolder, opt, g]; s holds what the
\* handlers change: [selection, inputField, selectionBucket, items, visible,
\* exit, threw, resolves, calls].  visible is the result of the last
\* list.filter(...) of filterListItems, the labels that items decorates.  resolves lists the arguments of the calls of
\* resolve(); threw is set when the handler ended with a TypeError; calls is
\* the record kept by the handlers of a bare decoder run.

\* What resolve(null) is given.
Null == [ null |-> TRUE, items |-> << >> ]

\* What resolve(array) is given.
Array(a) == [ null |-> FALSE, items |-> a ]

\* list.filter(item => item.match(query)): the visible labels.
filterList(c, query) ==
  filterSeq(c.list, { i \in 1..Len(c.list) : match(c.list[i], query) }, 1)

filterListItems(c, s, query) ==
  LET filtered == filterList(c, query)
      prefixed(item) == IF has(s.selectionBucket, item)
                        THEN applySelectionPrefix(c.g, item)
                        ELSE applyUnselectionPrefix(c.g, item)
  IN [ index \in 1..Len(filtered) |->
         IF index - 1 = 0
         THEN applySelectionIndicator(c.g, prefixed(filtered[index]))
         ELSE removeSelectionIndicator(c.g, prefixed(filtered[index])) ]

generateUpdatedItems(c, s) ==
  [ index \in 1..Len(s.items) |->
      IF index - 1 = s.selection
      THEN applySelectionIndicator(c.g, s.items[index])
      ELSE removeSelectionIndicator(c.g, s.items[index]) ]

\* items[selection] is undefined: a string method called on it throws.
undefinedItem(s) == s.selection = NaN \/ s.selection >= Len(s.items)

\* (selection + 1) % items.length
\* Variant of nextIndex: the cursor does not wrap after the last line.
nextIndex_NoWrap(selection, length) ==
  IF length = 0 \/ selection = NaN THEN NaN ELSE selection + 1

nextIndex(selection, length) ==
  IF length = 0 \/ selection = NaN THEN NaN ELSE (selection + 1) % length

\* (selection - 1 + items.length) % items.length
\* Variant of prevIndex: the cursor stops at the first line instead of
\* wrapping to the last.
prevIndex_NoWrap(selection, length) ==
  IF length = 0 \/ selection = NaN THEN NaN
  ELSE IF selection = 0 THEN 0 ELSE selection - 1

prevIndex(selection, length) ==
  IF length = 0 \/ selection = NaN THEN NaN ELSE (selection - 1 + length) % length

selectNext(c, s) ==
  LET s1 == [s EXCEPT !.selection = nextIndex(s.selection, Len(s.items))]
  IN [s1 EXCEPT !.items = generateUpdatedItems(c, s1)]

selectPrev(c, s) ==
  LET s1 == [s EXCEPT !.selection = prevIndex(s.selection, Len(s.items))]
  IN [s1 EXCEPT !.items = generateUpdatedItems(c, s1)]

\* The label handleSubmit and markUnselected read off the line at the cursor.
strippedForSubmit(c, s) ==
  removeSelectionIndicator(c.g,
    removeUnselectionPrefix(c.g,
      removeSelectionPrefix(c.g, s.items[s.selection + 1])))

\* The label markSelected reads off the line at the cursor.
\* Variant of strippedForMark: the indicator is left on the label.
strippedForMark_KeepIndicator(c, s) ==
  removeSelectionPrefix(c.g,
    removeUnselectionPrefix(c.g, s.items[s.selection + 1]))

strippedForMark(c, s) ==
  removeSelectionIndicator(c.g,
    removeSelectionPrefix(c.g,
      removeUnselectionPrefix(c.g, s.items[s.selection + 1])))

\* Variant of handleSubmit: the selected items are listed in list order
\* instead of the order of the Set.
handleSubmit_ListOrder(c, s) ==
  LET s1 == [s EXCEPT !.exit = TRUE]
      inList == filterSeq(c.buildItemsList,
                  { i \in 1..Len(c.buildItemsList) :
                      has(s.selectionBucket, c.buildItemsList[i].text) }, 1)
  IN IF Len(s.selectionBucket) = 0
     THEN IF undefinedItem(s)
          THEN [s1 EXCEPT !.threw = TRUE]
          ELSE [s1 EXCEPT !.resolves =
                  Append(@, Array(findItems(c.buildItemsList,
                                            << strippedForSubmit(c, s) >>)))]
     ELSE [s1 EXCEPT !.resolves = Append(@, Array(inList))]

\* Variant of handleSubmit: quit() is not called.
handleSubmit_NoQuit(c, s) ==
  IF Len(s.selectionBucket) = 0
  THEN IF undefinedItem(s)
       THEN [s EXCEPT !.threw = TRUE]
       ELSE [s EXCEPT !.resolves =
               Append(@, Array(findItems(c.buildItemsList,
                                         << strippedForSubmit(c, s) >>)))]
  ELSE [s EXCEPT !.resolves =
          Append(@, Array(findItems(c.buildItemsList, s.selectionBucket)))]

handleSubmit(c, s) ==
  LET s1 == [s EXCEPT !.exit = TRUE]
  IN IF Len(s.selectionBucket) = 0
     THEN IF undefinedItem(s)
          THEN [s1 EXCEPT !.threw = TRUE]
          ELSE [s1 EXCEPT !.resolves =
                  Append(@, Array(findItems(c.buildItemsList,
                                            << strippedForSubmit(c, s) >>)))]
     ELSE [s1 EXCEPT !.resolves =
             Append(@, Array(findItems(c.buildItemsList, s.selectionBucket)))]

\* Variant of handleExit: the session resolves with an empty array.
handleExit_EmptyArray(c, s) ==
  [s EXCEPT !.exit = TRUE, !.resolves = Append(@, Array(<< >>))]

handleExit(c, s) ==
  [s EXCEPT !.exit = TRUE, !.resolves = Append(@, Null)]

\* Variant of handleInput: the list is filtered by the query as it was before
\* the character was added.
handleInput_StaleQuery(c, s, char) ==
  IF c.placeHolder = << >> THEN s
  ELSE LET cleared == IF s.inputField = c.placeHolder THEN << >> ELSE s.inputField
           s1 == [s EXCEPT !.inputField = cleared \o char]
       IN [s1 EXCEPT !.items = filterListItems(c, s1, cleared),
                     !.visible = filterList(c, cleared),
                     !.selection = 0]

handleInput(c, s, char) ==
  IF c.placeHolder = << >> THEN s
  ELSE LET cleared == IF s.inputField = c.placeHolder THEN << >> ELSE s.inputField
           s1 == [s EXCEPT !.inputField = cleared \o char]
       IN [s1 EXCEPT !.items = filterListItems(c, s1, s1.inputField),
                     !.visible = filterList(c, s1.inputField),
                     !.selection = 0]

\* Variant of handleBackspace: the last character is cut off whatever the
\* input field shows.
handleBackspace_NoGuard(c, s) ==
  LET cut == dropLast(s.inputField)
      s1 == [s EXCEPT !.inputField =
                IF Len(cut) = 0 THEN c.placeHolder ELSE cut]
  IN [s1 EXCEPT !.items = IF Len(cut) = 0
                          THEN filterListItems(c, s1, MatchAll)
                          ELSE filterListItems(c, s1, cut),
                !.visible = IF Len(cut) = 0
                            THEN filterList(c, MatchAll)
                            ELSE filterList(c, cut),
                !.selection = 0]

handleBackspace(c, s) ==
  IF s.inputField = c.placeHolder THEN s
  ELSE LET cut == dropLast(s.inputField)
           s1 == [s EXCEPT !.inputField =
                     IF Len(cut) = 0 THEN c.placeHolder ELSE cut]
       IN [s1 EXCEPT !.items = IF Len(cut) = 0
                               THEN filterListItems(c, s1, MatchAll)
                               ELSE filterListItems(c, s1, cut),
                     !.visible = IF Len(cut) = 0
                                 THEN filterList(c, MatchAll)
                                 ELSE filterList(c, cut),
                     !.selection = 0]

\* Variant of limitGuard: the limit is never looked at.
limitGuard_NoLimit(c, s) == FALSE

\* opt?.limit >= selectionBucket.size (false when no limit is given)
limitGuard(c, s) == c.opt.hasLimit /\ c.opt.limit >= Len(s.selectionBucket)

markSelected(c, s) ==
  IF limitGuard(c, s) THEN s
  ELSE IF undefinedItem(s) THEN [s EXCEPT !.threw = TRUE]
  ELSE LET currItem == strippedForMark(c, s)
       IN IF has(s.selectionBucket, currItem) THEN s
          ELSE selectNext(c,
                 [s EXCEPT !.selectionBucket = Append(@, currItem),
                           !.items[s.selection + 1] =
                              applySelectionPrefix(c.g,
                                removeUnselectionPrefix(c.g,
                                  removeSelectionIndicator(c.g, @)))])

\* selectionBucket.delete(x)
delete(bucket, x) ==
  filterSeq(bucket, { i \in 1..Len(bucket) : bucket[i] # x }, 1)

markUnselected(c, s) ==
  IF undefinedItem(s) THEN [s EXCEPT !.threw = TRUE]
  ELSE LET currItem == strippedForSubmit(c, s)
       IN IF ~has(s.selectionBucket, currItem) THEN s
          ELSE selectNext(c,
                 [s EXCEPT !.selectionBucket = delete(@, currItem),
                           !.items[s.selection + 1] =
                              applyUnselectionPrefix(c.g,
                                removeSelectionIndicator(c.g,
                                  removeSelectionPrefix(c.g, @)))])

\* ------------------------------------------------------------ keySequences

ArrowUp == << ESC, "[", "A" >>
ArrowDown == << ESC, "[", "B" >>
ArrowRight == << ESC, "[", "C" >>
ArrowLeft == << ESC, "[", "D" >>
F1 == << ESC, "O", "P" >>
F2 == << ESC, "O", "Q" >>
F3 == << ESC, "O", "R" >>
F4 == << ESC, "O", "S" >>
F5 == << ESC, "[", "1", "5", "~" >>
F6 == << ESC, "[", "1", "7", "~" >>
F7 == << ESC, "[", "1", "8", "~" >>
F8 == << ESC, "[", "1", "9", "~" >>
F9 == << ESC, "[", "2", "0", "~" >>
F10 == << ESC, "[", "2", "1", "~" >>
F11 == << ESC, "[", "2", "3", "~" >>
F12 == << ESC, "[", "2", "4", "~" >>
Home == << ESC, "[", "H" >>
End == << ESC, "[", "F" >>
PageUp == << ESC, "[", "5", "~" >>
PageDown == << ESC, "[", "6", "~" >>
Insert == << ESC, "[", "2", "~" >>
Delete == << ESC, "[", "3", "~" >>
Space == << SP >>
Enter == << CR >>
Escape == << ESC >>
Tab == << TAB >>
ShiftTab == << ESC, "[", "Z" >>
Backspace == << DEL >>
capitalLetters == << "capitalLetters" >>
smallLetters == << "smallLetters" >>
numbers == << "numbers" >>

\* The key of the fallback handler.
default == << "default" >>

\* The named keys of keySequences that are longer than one byte.
MultiByteKeys ==
  { ArrowUp, ArrowDown, ArrowRight, ArrowLeft, F1, F2, F3, F4, F5, F6, F7, F8,
    F9, F10, F11, F12, Home, End, PageUp, PageDown, Insert, Delete, ShiftTab }

\* ------------------------------------------------------- handleKeysPress

\* A handler is [fn, id, quits]: fn names a function of filterItemsFromList,
\* or is "spy" for a handler of a bare decoder run, which records its call
\* under id and calls quit() when quits is set.  An "asyncSpy" is an async
\* function: it records its call when called, and calls quit() after an await
\* of its own, right before its promise settles.
Fn(name) == [ fn |-> name, id |-> << name >>, quits |-> FALSE ]

Spy(id, quits) == [ fn |-> "spy", id |-> id, quits |-> quits ]

AsyncSpy(id, quits) == [ fn |-> "asyncSpy", id |-> id, quits |-> quits ]

mapCapitalLetterKeys(table) ==
  LET capitalLettersCb == table[capitalLetters]
      added == { << fromCharCode(i) >> : i \in 65..89 }
  IN [ k \in (DOMAIN table \cup added) \ { capitalLetters } |->
         IF k \in added THEN capitalLettersCb ELSE table[k] ]

mapSmallLetterKeys(table) ==
  LET smallLettersCb == table[smallLetters]
      added == { << fromCharCode(i) >> : i \in 97..121 }
  IN [ k \in (DOMAIN table \cup added) \ { smallLetters } |->
         IF k \in added THEN smallLettersCb ELSE table[k] ]

mapNumberkeys(table) ==
  LET numberCb == table[numbers]
      added == { << digitString(i) >> : i \in 0..9 }
  IN [ k \in (DOMAIN table \cup added) \ { numbers } |->
         IF k \in added THEN numberCb ELSE table[k] ]

\* The first lines of handleKeysPress: the groups of the table are expanded.
expandGroups(table) ==
  LET keys == DOMAIN table
      t1 == IF capitalLetters \in keys THEN mapCapitalLetterKeys(table) ELSE table
      t2 == IF smallLetters \in keys THEN mapSmallLetterKeys(t1) ELSE t1
  IN IF numbers \in keys THEN mapNumberkeys(t2) ELSE t2

\* The table filterItemsFromList gives to handleKeysPress.
keyPressHandlers ==
  [ k \in { ArrowUp, ArrowDown, Enter, smallLetters, capitalLetters, Escape,
            Backspace, Tab, ShiftTab, << "+" >>, << "-" >> } |->
      IF k \in { ArrowUp, ShiftTab } THEN Fn("selectPrev")
      ELSE IF k \in { ArrowDown, Tab } THEN Fn("selectNext")
      ELSE IF k = Enter THEN Fn("handleSubmit")
      ELSE IF k \in { smallLetters, capitalLetters } THEN Fn("handleInput")
      ELSE IF k = Escape THEN Fn("handleExit")
      ELSE IF k = Backspace THEN Fn("handleBackspace")
      ELSE IF k = << "+" >> THEN Fn("markSelected")
      ELSE Fn("markUnselected") ]

\* The call h(key, quit), or h(key) when hasQuit is FALSE (the default
\* handler is given no quit function).
invoke(h, key, hasQuit, c, s) ==
  CASE h.fn = "selectPrev" -> selectPrev(c, s)
    [] h.fn = "selectNext" -> selectNext(c, s)
    [] h.fn = "handleSubmit" -> handleSubmit(c, s)
    [] h.fn = "handleExit" -> handleExit(c, s)
    [] h.fn = "handleInput" -> handleInput(c, s, key)
    [] h.fn = "handleBackspace" -> handleBackspace(c, s)
    [] h.fn = "markSelected" -> markSelected(c, s)
    [] h.fn = "markUnselected" -> markUnselected(c, s)
    [] OTHER ->
         LET s1 == [s EXCEPT !.calls = Append(@, [ id |-> h.id, key |-> key ])]
         IN IF ~h.quits \/ h.fn = "asyncSpy" THEN s1
            ELSE IF hasQuit THEN [s1 EXCEPT !.exit = TRUE]
            ELSE [s1 EXCEPT !.threw = TRUE]

\* ------------------------------------------------------------------ state

VARIABLES
  indicator,         \* style.js: module variable
  selectedPrefix,    \* style.js: module variable
  unselectedPrefix,  \* style.js: module variable
  prompt,            \* style.js: module variable
  buildItemsList,    \* filterItemsFromList: the ListItems of the call
  opt,               \* filterItemsFromList: the options of the call
  placeHolder,       \* filterItemsFromList
  selection,         \* filterItemsFromList: index of the cursor line
  inputField,        \* filterItemsFromList: the query text or the placeholder
  selectionBucket,   \* filterItemsFromList: the Set, in insertion order
  items,             \* filterItemsFromList: the decorated visible lines
  visible,           \* filterListItems: the labels list.filter(...) kept
  resolves,          \* the arguments of the calls of the promise's resolve()
  keysAndCb,         \* handleKeysPress: the binding table
  exit,              \* handleKeysPress
  escapeSequence,    \* handleKeysPress: the decoder buffer
  pc,                \* handleKeysPress: where the loop stands
  running,           \* handleKeysPress: the handler call being awaited
  calls,             \* what the handlers of a bare decoder run recorded
  stdin,             \* the bytes a bare decoder run is fed
  nread,             \* how many of them it has read
  queue              \* promiseQueueWithLimit: the state of one call

vars ==
  << indicator, selectedPrefix, unselectedPrefix, prompt, buildItemsList, opt,
     placeHolder, selection, inputField, selectionBucket, items, visible,
     resolves, keysAndCb, exit, escapeSequence, pc, running, calls, stdin, nread, queue >>

\* Every variable of the list filter and of the key loop.
loopVars ==
  << indicator, selectedPrefix, unselectedPrefix, prompt, buildItemsList, opt,
     placeHolder, selection, inputField, selectionBucket, items, visible,
     resolves, keysAndCb, exit, escapeSequence, pc, running, calls, stdin,
     nread >>

globalVars == << indicator, selectedPrefix, unselectedPrefix, prompt >>

sessionVars ==
  << buildItemsList, opt, placeHolder, selection, inputField, selectionBucket,
     items, visible, resolves >>

\* promiseQueueWithLimit has not been called.  hasThis tells whether `this`
\* is an object where the module is evaluated (it is undefined in an ES
\* module), pLimit is this.pLimit, task the state of the promise of each task
\* factory, next the index of the factory the for loop is at, executing the
\* Set, jobs the settled tasks whose finally() callback has not run yet, in
\* the order in which they settled, awaited the promises given to the
\* Promise.race or Promise.all being awaited and outcome the state of that
\* promise.
NoQueue ==
  [ pc |-> "idle", hasThis |-> FALSE, pLimit |-> 0, task |-> << >>,
    next |-> 1, executing |-> {}, jobs |-> << >>, awaited |-> {},
    outcome |-> "pending" ]

\* No handler call is being awaited.
NoCall == [ h |-> Fn("none"), key |-> << >>, at |-> "none", threw |-> FALSE ]

\* The options object with no option given.
NoOpt ==
  [ indicator |-> Undefined, selectedPrefix |-> Undefined,
    unselectedPrefix |-> Undefined, prompt |-> Undefined,
    headerText |-> Undefined, placeholderText |-> Undefined,
    value |-> Undefined, hasLimit |-> FALSE, limit |-> 0 ]

\* The closure records of the current state.
Glyphs ==
  [ indicator |-> indicator, selectedPrefix |-> selectedPrefix,
    unselectedPrefix |-> unselectedPrefix ]

Closure ==
  [ list |-> [ i \in 1..Len(buildItemsList) |-> buildItemsList[i].text ],
    buildItemsList |-> buildItemsList, placeHolder |-> placeHolder,
    opt |-> opt, g |-> Glyphs ]

Mutable ==
  [ selection |-> selection, inputField |-> inputField,
    selectionBucket |-> selectionBucket, items |-> items,
    visible |-> visible, exit |-> exit,
    threw |-> FALSE, resolves |-> resolves, calls |-> calls ]

\* The state a handler call leaves.
Assign(r) ==
  /\ selection' = r.selection
  /\ inputField' = r.inputField
  /\ selectionBucket' = r.selectionBucket
  /\ items' = r.items
  /\ visible' = r.visible
  /\ exit' = r.exit
  /\ resolves' = r.resolves
  /\ calls' = r.calls

\* ------------------------------------------------------------------ inputs

S(text) == [ obj |-> FALSE, text |-> text, value |-> << >> ]

O(text, v) == [ obj |-> TRUE, text |-> text, value |-> << v >> ]

\* The lists the sessions of the model are started with.
ItemLists ==
  { << S(<< "a" >>), S(<< "A" >>), S(<< "a", "A" >>) >>,
    << O(<< "a" >>, "v1"), O(<< "A" >>, "v2"), O(<< "a" >>, "v3") >>,
    << S(<< "a", BULLET >>), S(<< "A" >>) >>,
    << >> }

\* The options the multi-select sessions of the model are started with.
MultiOpts ==
  { NoOpt,
    [NoOpt EXCEPT !.hasLimit = TRUE, !.limit = 0],
    [NoOpt EXCEPT !.hasLimit = TRUE, !.limit = 1],
    [NoOpt EXCEPT !.hasLimit = TRUE, !.limit = 2],
    [NoOpt EXCEPT !.placeholderText = << "a" >>],
    [NoOpt EXCEPT !.value = << "a" >>],
    [NoOpt EXCEPT !.indicator = << ">" >>, !.prompt = << ":" >>] }

\* The options the single-select sessions of the model are started with.
SingleOpts == { NoOpt }

\* The bytes the terminal of a session delivers.
TermBytes == { ESC, "[", "A", "Z", CR, DEL, TAB, "+", "-", "a" }

\* --------------------------------------------------------------- sessions

\* filterItemsFromList(listItems, o): the call up to the first blocking read
\* of handleKeysPress(keyPressHandlers).
filterItemsFromList(listItems, o) ==
  /\ pc \in { "idle", "done", "threw" }
  /\ buildItemsList' = buildItems(listItems)
  /\ opt' = o
  /\ indicator' = Nullish(o.indicator, indicator)
  /\ selectedPrefix' = Nullish(o.selectedPrefix, selectedPrefix)
  /\ unselectedPrefix' = Nullish(o.unselectedPrefix, unselectedPrefix)
  /\ selection' = 0
  /\ placeHolder' = Nullish(o.placeholderText, DefaultPlaceHolder)
  /\ prompt' = Nullish(o.prompt, prompt)
  /\ inputField' = placeHolder'
  /\ selectionBucket' = << >>
  /\ resolves' = << >>
  /\ LET c == [ list |-> [ i \in 1..Len(listItems) |-> buildItems(listItems)[i].text ],
                g |-> [ indicator |-> indicator',
                        selectedPrefix |-> selectedPrefix',
                        unselectedPrefix |-> unselectedPrefix' ] ]
         s == [ selectionBucket |-> << >> ]
     IN /\ items' = filterListItems(c, s, Nullish(o.value, MatchAll))
        /\ visible' = filterList(c, Nullish(o.value, MatchAll))
  /\ keysAndCb' = expandGroups(keyPressHandlers)
  /\ exit' = FALSE
  /\ escapeSequence' = << >>
  /\ pc' = "read"
  /\ running' = NoCall
  /\ UNCHANGED << calls, stdin, nread, queue >>

filterItemFromList(listItems, o) ==
  filterItemsFromList(listItems,
    [o EXCEPT !.selectedPrefix = << >>, !.unselectedPrefix = << >>,
              !.hasLimit = TRUE, !.limit = 1])

chooseItemFromList(listItems, o) ==
  filterItemFromList(listItems,
    [o EXCEPT !.headerText = << >>, !.placeholderText = << >>])

\* --------------------------------------------------------------- the loop

\* Variant of callHandler: the handler is called and not awaited, the loop
\* goes on reading at once.
callHandler_NoAwait(h, key, hasQuit, at) ==
  LET r == invoke(h, key, hasQuit, Closure, Mutable)
  IN /\ r.inputField = placeHolder \/ Len(r.inputField) <= MaxQuery
     /\ Assign(r)
     /\ running' = [ h |-> h, key |-> key, at |-> at, threw |-> r.threw ]
     /\ pc' = "read"

\* The call of a handler at line `at`; the loop then awaits it.
callHandler(h, key, hasQuit, at) ==
  LET r == invoke(h, key, hasQuit, Closure, Mutable)
  IN /\ r.inputField = placeHolder \/ Len(r.inputField) <= MaxQuery
     /\ Assign(r)
     /\ running' = [ h |-> h, key |-> key, at |-> at, threw |-> r.threw ]
     /\ pc' = "await"

\* Variant of readInput: a buffer that matches nothing, with no default
\* handler bound, is kept.
readInput_KeepBuffer(input) ==
  /\ pc = "read"
  /\ LET buffer == escapeSequence \o << input >>
         keys == DOMAIN keysAndCb
     IN IF buffer = Escape
        THEN /\ escapeSequence' = buffer
             /\ pc' = "readNext"
             /\ UNCHANGED << selection, inputField, selectionBucket, items,
                             visible, exit, resolves, calls, running >>
        ELSE IF buffer \in keys
        THEN /\ escapeSequence' = buffer
             /\ callHandler(keysAndCb[buffer], buffer, TRUE, "match")
        ELSE IF default \in keys
        THEN /\ escapeSequence' = buffer
             /\ callHandler(keysAndCb[default], buffer, FALSE, "default")
        ELSE /\ escapeSequence' = buffer
             /\ pc' = "read"
             /\ UNCHANGED << selection, inputField, selectionBucket, items,
                             visible, exit, resolves, calls, running >>
  /\ UNCHANGED << globalVars, buildItemsList, opt, placeHolder, keysAndCb >>

\* Lines 316-319 and 329-336: one byte is read and added to the buffer, then
\* matched unless the buffer is the lone Escape byte.
readInput(input) ==
  /\ pc = "read"
  /\ LET buffer == escapeSequence \o << input >>
         keys == DOMAIN keysAndCb
     IN IF buffer = Escape
        THEN /\ escapeSequence' = buffer
             /\ pc' = "readNext"
             /\ UNCHANGED << selection, inputField, selectionBucket, items,
                             visible, exit, resolves, calls, running >>
        ELSE IF buffer \in keys
        THEN /\ escapeSequence' = buffer
             /\ callHandler(keysAndCb[buffer], buffer, TRUE, "match")
        ELSE IF default \in keys
        THEN /\ escapeSequence' = buffer
             /\ callHandler(keysAndCb[default], buffer, FALSE, "default")
        ELSE /\ escapeSequence' = << >>
             /\ pc' = "read"
             /\ UNCHANGED << selection, inputField, selectionBucket, items,
                             visible, exit, resolves, calls, running >>
  /\ UNCHANGED << globalVars, buildItemsList, opt, placeHolder, keysAndCb >>

\* Variant of doubleEscape: the loop is told to quit whether or not an Escape
\* handler is bound, and the handler is not called.
doubleEscape_AlwaysQuit ==
  /\ exit' = TRUE
  /\ pc' = "done"
  /\ UNCHANGED << selection, inputField, selectionBucket, items, visible,
                  resolves, calls, running, escapeSequence >>

\* Lines 322-324: the second byte is Escape too.
doubleEscape ==
  IF Escape \in DOMAIN keysAndCb
  THEN /\ callHandler(keysAndCb[Escape], escapeSequence, TRUE, "escape")
       /\ UNCHANGED escapeSequence
  ELSE /\ exit' = TRUE
       /\ pc' = "done"
       /\ UNCHANGED << selection, inputField, selectionBucket, items, visible,
                       resolves, calls, running, escapeSequence >>

\* Lines 320-326: the byte after a lone Escape byte.
readNextChar(nextChar) ==
  /\ pc = "readNext"
  /\ IF nextChar = ESC
        THEN doubleEscape
        ELSE /\ escapeSequence' = escapeSequence \o << nextChar >>
             /\ pc' = "read"
             /\ UNCHANGED << selection, inputField, selectionBucket, items,
                             visible, exit, resolves, calls, running >>
  /\ UNCHANGED << globalVars, buildItemsList, opt, placeHolder, keysAndCb >>

\* Variant of handlerReturn: after the handler bound to Escape has returned
\* the loop goes on reading, whether or not quit() was called.
handlerReturn_EscapeGoesOn ==
  /\ pc = "await"
  /\ LET late == running.h.fn = "asyncSpy" /\ running.h.quits
         threw == running.threw \/ (late /\ running.at = "default")
         exitNow == exit \/ (late /\ running.at # "default")
     IN /\ exit' = exitNow
        /\ pc' = IF threw THEN "threw"
                 ELSE IF exitNow /\ running.at # "escape" THEN "done"
                 ELSE "read"
        /\ escapeSequence' = IF threw \/ running.at = "escape"
                             THEN escapeSequence ELSE << >>
  /\ running' = NoCall
  /\ UNCHANGED << globalVars, sessionVars, keysAndCb, calls, stdin, nread, queue >>

\* The awaited handler call completes: the loop goes on after the await, or
\* handleKeysPress rejects when the handler threw.  An async handler calls
\* quit() here, at the end of its body (and throws if it was given none).
handlerReturn ==
  /\ pc = "await"
  /\ LET late == running.h.fn = "asyncSpy" /\ running.h.quits
         threw == running.threw \/ (late /\ running.at = "default")
         exitNow == exit \/ (late /\ running.at # "default")
     IN /\ exit' = exitNow
        /\ pc' = IF threw THEN "threw" ELSE IF exitNow THEN "done" ELSE "read"
        /\ escapeSequence' = IF threw \/ running.at = "escape"
                             THEN escapeSequence ELSE << >>
  /\ running' = NoCall
  /\ UNCHANGED << globalVars, sessionVars, keysAndCb, calls, stdin, nread, queue >>

\* ------------------------------------------------- specification: sessions

Init ==
  /\ indicator = DefaultIndicator
  /\ selectedPrefix = DefaultSelectedPrefix
  /\ unselectedPrefix = DefaultUnselectedPrefix
  /\ prompt = DefaultPrompt
  /\ buildItemsList = << >>
  /\ opt = NoOpt
  /\ placeHolder = DefaultPlaceHolder
  /\ selection = 0
  /\ inputField = DefaultPlaceHolder
  /\ selectionBucket = << >>
  /\ items = << >>
  /\ visible = << >>
  /\ resolves = << >>
  /\ keysAndCb = << >>
  /\ exit = FALSE
  /\ escapeSequence = << >>
  /\ pc = "idle"
  /\ running = NoCall
  /\ calls = << >>
  /\ stdin = << >>
  /\ nread = 0
  /\ queue = NoQueue

StartMulti == \E l \in ItemLists, o \in MultiOpts : filterItemsFromList(l, o)

StartSingle == \E l \in ItemLists, o \in SingleOpts : filterItemFromList(l, o)

StartChoose == \E l \in ItemLists, o \in SingleOpts : chooseItemFromList(l, o)

TerminalInput ==
  \E b \in TermBytes : readInput(b) /\ UNCHANGED << stdin, nread, queue >>

TerminalNextChar ==
  \E b \in TermBytes : readNextChar(b) /\ UNCHANGED << stdin, nread, queue >>

Next ==
  \/ StartMulti
  \/ StartSingle
  \/ StartChoose
  \/ TerminalInput
  \/ TerminalNextChar
  \/ handlerReturn

Spec == Init /\ [][Next]_vars

\* ---------------------------------------- specification: the bare decoder
\* handleKeysPress is given a binding table of recording handlers and reads a
\* fixed feed of bytes; a read with no byte left blocks for ever.

\* The binding tables of the bare decoder runs.
KeyTables ==
  { [ k \in MultiByteKeys |-> Spy(k, FALSE) ],
    [ k \in MultiByteKeys \cup { default, << "5" >> } |-> Spy(k, FALSE) ],
    [ k \in { capitalLetters, smallLetters, numbers, << "A" >>, << "+" >> } |->
        Spy(k, FALSE) ],
    [ k \in { Escape, << "j" >>, Enter } |-> Spy(k, k = Enter) ],
    [ k \in { Escape, << "j" >> } |-> Spy(k, k = Escape) ],
    [ k \in { << "j" >>, default } |-> Spy(k, FALSE) ],
    [ k \in { << "j" >>, Enter } |-> Spy(k, k = Enter) ],
    [ k \in { Escape, << "j" >>, Enter } |-> AsyncSpy(k, k # << "j" >>) ] }

\* The bytes of the free feeds.
FeedBytes == { ESC, "[", "A", "j", "Z", "5", CR }

RECURSIVE SeqsUpTo(_, _)
SeqsUpTo(S_, n) ==
  IF n = 0 THEN { << >> }
  ELSE LET shorter == SeqsUpTo(S_, n - 1)
       IN shorter \cup { Append(q, b) : q \in shorter, b \in S_ }

\* The feeds: every named multi-byte key, and every short byte sequence.
Feeds == MultiByteKeys \cup SeqsUpTo(FeedBytes, MaxFeed)

\* handleKeysPress(keysAndCb) up to its first blocking read: lines 305-315.
handleKeysPress ==
  /\ pc = "idle"
  /\ keysAndCb' = expandGroups(keysAndCb)
  /\ exit' = FALSE
  /\ escapeSequence' = << >>
  /\ pc' = "read"
  /\ UNCHANGED << globalVars, sessionVars, running, calls, stdin, nread, queue >>

StdinInput ==
  /\ nread < Len(stdin)
  /\ readInput(stdin[nread + 1])
  /\ nread' = nread + 1
  /\ UNCHANGED << stdin, queue >>

StdinNextChar ==
  /\ nread < Len(stdin)
  /\ readNextChar(stdin[nread + 1])
  /\ nread' = nread + 1
  /\ UNCHANGED << stdin, queue >>

InitKeys ==
  /\ indicator = DefaultIndicator
  /\ selectedPrefix = DefaultSelectedPrefix
  /\ unselectedPrefix = DefaultUnselectedPrefix
  /\ prompt = DefaultPrompt
  /\ buildItemsList = << >>
  /\ opt = NoOpt
  /\ placeHolder = DefaultPlaceHolder
  /\ selection = 0
  /\ inputField = DefaultPlaceHolder
  /\ selectionBucket = << >>
  /\ items = << >>
  /\ visible = << >>
  /\ resolves = << >>
  /\ keysAndCb \in KeyTables
  /\ exit = FALSE
  /\ escapeSequence = << >>
  /\ pc = "idle"
  /\ running = NoCall
  /\ calls = << >>
  /\ stdin \in Feeds
  /\ nread = 0
  /\ queue = NoQueue

NextKeys ==
  \/ handleKeysPress
  \/ StdinInput
  \/ StdinNextChar
  \/ handlerReturn

SpecKeys == InitKeys /\ [][NextKeys]_vars

\* ------------------------------- specification: promiseQueueWithLimit
\* One call of promiseQueueWithLimit(getTaskPromises).  The tasks settle on
\* their own; the callback given to finally() and the continuations of the
\* awaits are jobs of the one thread and run in any order the job queue can
\* give them.

\* Most task factories in a call.
MaxTasks == 3

\* Largest this.pLimit.
MaxLimit == 2

\* Lines 29-31: the call evaluates this.pLimit, which throws a TypeError
\* where `this` is undefined; catchAsyncError hands the error to handleError,
\* which throws it again, so the call rejects.
promiseQueueWithLimit ==
  /\ queue.pc = "idle"
  /\ queue' = [queue EXCEPT !.pc = IF queue.hasThis THEN "loop" ELSE "rejected"]
  /\ UNCHANGED loopVars

\* Variant of getTaskPromise: the loop never waits for a running task.
getTaskPromise_NoWait ==
  /\ queue.pc = "loop"
  /\ queue.next <= Len(queue.task)
  /\ queue' = [queue EXCEPT !.task[queue.next] = "pending",
                            !.executing = @ \cup { queue.next },
                            !.next = @ + 1]
  /\ UNCHANGED loopVars

\* Lines 33-38: one turn of the for loop.  The task is started, its promise
\* is added to executing, and with executing.size == this.pLimit the loop
\* awaits Promise.race(executing).
getTaskPromise ==
  /\ queue.pc = "loop"
  /\ queue.next <= Len(queue.task)
  /\ LET started == queue.executing \cup { queue.next }
         full == Cardinality(started) = queue.pLimit
     IN queue' = [queue EXCEPT !.task[queue.next] = "pending",
                               !.executing = started,
                               !.next = @ + 1,
                               !.pc = IF full THEN "race" ELSE "loop",
                               !.awaited = IF full THEN started ELSE @,
                               !.outcome = IF full THEN "pending" ELSE @]
  /\ UNCHANGED loopVars

\* Line 40: after the loop, Promise.all(executing) is awaited; it is
\* fulfilled at once when executing is empty.
PromiseAll ==
  /\ queue.pc = "loop"
  /\ queue.next > Len(queue.task)
  /\ queue' = [queue EXCEPT !.pc = "all",
                            !.awaited = queue.executing,
                            !.outcome = IF queue.executing = {}
                                        THEN "fulfilled" ELSE "pending"]
  /\ UNCHANGED loopVars

\* The promise a task factory returned is fulfilled or rejected, which puts
\* the callback given to finally() on the job queue.
settle(i, how) ==
  /\ i \in 1..Len(queue.task)
  /\ queue.task[i] = "pending"
  /\ queue' = [queue EXCEPT !.task[i] = how, !.jobs = Append(@, i)]
  /\ UNCHANGED loopVars

\* Line 34: the callback given to finally() runs for a settled task and
\* deletes its promise from executing; the promise finally() returned then
\* settles as the task did, which settles a pending Promise.race that was
\* given it, rejects a pending Promise.all that was given it, or fulfils that
\* Promise.all when it was the last.  It is a job of its own: it runs while
\* the call is suspended in an await or has ended, never in the middle of the
\* loop's synchronous code, and the callbacks run in the order in which the
\* tasks settled.
finally(i) ==
  /\ queue.pc \in { "race", "all", "fulfilled", "rejected" }
  /\ queue.jobs # << >>
  /\ i = Head(queue.jobs)
  /\ LET left == queue.executing \ { i }
         heard == queue.outcome = "pending" /\ i \in queue.awaited
     IN queue' = [queue EXCEPT
          !.executing = left,
          !.jobs = Tail(@),
          !.outcome =
            IF ~heard THEN @
            ELSE IF queue.pc = "race" THEN queue.task[i]
            ELSE IF queue.task[i] = "rejected" THEN "rejected"
            ELSE IF queue.awaited \cap left = {} THEN "fulfilled"
            ELSE "pending"]
  /\ UNCHANGED loopVars

\* The continuation of the await at line 37 or line 40: the loop goes on, the
\* call returns, or the rejection is thrown and the call rejects.
resume ==
  /\ queue.pc \in { "race", "all" }
  /\ queue.outcome # "pending"
  /\ queue' = [queue EXCEPT !.pc = IF queue.outcome = "rejected" THEN "rejected"
                                   ELSE IF queue.pc = "race" THEN "loop"
                                   ELSE "fulfilled"]
  /\ UNCHANGED loopVars

TaskSettles ==
  \E i \in 1..MaxTasks, how \in { "fulfilled", "rejected" } : settle(i, how)

FinallyCallback == \E i \in 1..MaxTasks : finally(i)

InitQueue ==
  /\ indicator = DefaultIndicator
  /\ selectedPrefix = DefaultSelectedPrefix
  /\ unselectedPrefix = DefaultUnselectedPrefix
  /\ prompt = DefaultPrompt
  /\ buildItemsList = << >>
  /\ opt = NoOpt
  /\ placeHolder = DefaultPlaceHolder
  /\ selection = 0
  /\ inputField = DefaultPlaceHolder
  /\ selectionBucket = << >>
  /\ items = << >>
  /\ visible = << >>
  /\ resolves = << >>
  /\ keysAndCb = << >>
  /\ exit = FALSE
  /\ escapeSequence = << >>
  /\ pc = "idle"
  /\ running = NoCall
  /\ calls = << >>
  /\ stdin = << >>
  /\ nread = 0
  /\ \E n \in 0..MaxTasks, limit \in 1..MaxLimit, hasThis \in BOOLEAN :
       queue = [NoQueue EXCEPT !.hasThis = hasThis,
                               !.pLimit = limit,
                               !.task = [ i \in 1..n |-> "new" ]]

NextQueue ==
  \/ promiseQueueWithLimit
  \/ getTaskPromise
  \/ PromiseAll
  \/ TaskSettles
  \/ FinallyCallback
  \/ resume

SpecQueue == InitQueue /\ [][NextQueue]_vars

\* ================================================================ properties

\* The list of labels of the session.
Labels == [ i \in 1..Len(buildItemsList) |-> buildItemsList[i].text ]

\* The first entry of allItems with that label.
FirstWithLabel(label) ==
  buildItemsList[CHOOSE i \in 1..Len(buildItemsList) :
                   /\ buildItemsList[i].text = label
                   /\ \A j \in 1..(i - 1) : buildItemsList[j].text # label]

\* The session has resolved by a submit made with a non-empty selected set.
SubmittedSelection ==
  /\ resolves # << >>
  /\ ~resolves[1].null
  /\ selectionBucket # << >>

\* The members of selected that are labels of allItems, in marking order.
SelectedPresent ==
  filterSeq(selectionBucket,
            { i \in 1..Len(selectionBucket) :
                \E j \in 1..Len(Labels) : Labels[j] = selectionBucket[i] }, 1)

\* No two entries of allItems have the same label.
DistinctLabels ==
  \A i, j \in 1..Len(Labels) : Labels[i] = Labels[j] => i = j

\* C1 as stated: a submit with a non-empty selected set resolves with exactly
\* the ListItems whose label is in selected, listed in allItems order,
\* whatever the order in which the labels were marked.  It is stated for the
\* lists of pairwise distinct labels, where a label names one ListItem.
C1_SubmitListOrder ==
  (SubmittedSelection /\ DistinctLabels) =>
    resolves[1].items =
      filterSeq(buildItemsList,
                { i \in 1..Len(buildItemsList) :
                    has(selectionBucket, buildItemsList[i].text) }, 1)

\* C1 as amended: a submit with a non-empty selected set resolves with one
\* ListItem per member of selected that is a label of allItems, the first
\* allItems entry with that label, listed in the order in which the labels
\* were marked.
C1_SubmitMarkOrder ==
  SubmittedSelection =>
    /\ Len(resolves[1].items) = Len(SelectedPresent)
    /\ \A i \in 1..Len(SelectedPresent) :
         resolves[1].items[i] = FirstWithLabel(SelectedPresent[i])

\* Witness of C1: a submit has resolved with two items marked against the
\* order of the list.
C1_Witness ==
  /\ SubmittedSelection
  /\ Len(resolves[1].items) = 2
  /\ resolves[1].items[1] = buildItemsList[2]
  /\ resolves[1].items[2] = buildItemsList[1]

\* The loop has just called handler fn and awaits it.
Called(fn) == pc = "await" /\ running.h.fn = fn

\* C2 as stated: with a limit L configured, mark() while selected.size < L
\* adds the label at cursor to selected.
C2_MarkBelowLimitAdds ==
  [][ ( /\ pc = "read"
        /\ pc' = "await"
        /\ running'.h.fn = "markSelected"
        /\ opt.hasLimit
        /\ Len(selectionBucket) < opt.limit
        /\ selection # NaN
        /\ selection < Len(visible)
        /\ ~has(selectionBucket, visible[selection + 1]) )
      => selectionBucket' = Append(selectionBucket, visible[selection + 1]) ]_vars

\* C3: in a session started with limit L, selected never holds more than L
\* labels.
C3_SelectedWithinLimit == opt.hasLimit => Len(selectionBucket) <= opt.limit

\* Witness of C3: mark was called in a session with a limit, on a line of a
\* non-empty visible list.
C3_Witness ==
  /\ Called("markSelected")
  /\ opt.hasLimit
  /\ opt.limit = 2
  /\ visible # << >>
  /\ selection = 1

\* The session has resolved by a submit made with an empty selected set on a
\* non-empty visible list.
SubmittedCursor ==
  /\ resolves # << >>
  /\ ~resolves[1].null
  /\ selectionBucket = << >>
  /\ visible # << >>

\* C4 as stated: a submit with an empty selected set and a non-empty visible
\* list resolves with exactly one ListItem, an allItems entry whose label is
\* the label at cursor, with that entry's value.
C4_SubmitCursorItem ==
  SubmittedCursor =>
    /\ Len(resolves[1].items) = 1
    /\ resolves[1].items[1].text = visible[selection + 1]
    /\ \E i \in 1..Len(buildItemsList) : buildItemsList[i] = resolves[1].items[1]

\* C5 as stated: a submit with visible and selected both empty resolves the
\* session with an empty result and raises no error.
C5_SubmitEmptyResolves ==
  (Called("handleSubmit") /\ visible = << >> /\ selectionBucket = << >>)
    => (~running.threw /\ resolves = << Array(<< >>) >>)

\* C6: cancel resolves the session with null, and no submit resolves it with
\* null.
C6_CancelDistinct ==
  /\ Called("handleExit") => resolves = << Null >>
  /\ Called("handleSubmit") => \A i \in 1..Len(resolves) : ~resolves[i].null

\* Witness of C6: a submit has resolved the session with no item at all.
C6_Witness == Called("handleSubmit") /\ resolves = << Array(<< >>) >>

\* C7: the promise is resolved at most once, only in the call bound to Enter
\* or to Escape, that call has told the loop to quit, and once the promise is
\* resolved the loop reads no byte and calls no handler.
C7_ResolvedOnceByEnterOrEscape ==
  [][ /\ Len(resolves') <= 1
      /\ (resolves' # resolves /\ resolves' # << >>)
           => ( /\ pc' = "await"
                /\ running'.key \in { Enter, Escape }
                /\ exit' )
      /\ resolves # << >>
           => ( \/ pc' \in { "done", "threw" }
                \/ pc' = pc
                \/ resolves' = << >> ) ]_vars

\* Witness of C7: the session has resolved and its loop has ended.
C7_Witness == resolves # << >> /\ pc = "done"

\* The member characters of the three groups.
GroupMembers(group) ==
  IF group = capitalLetters THEN { UpperChars[i] : i \in 1..26 }
  ELSE IF group = smallLetters THEN { LowerChars[i] : i \in 1..26 }
  ELSE { DigitChars[i] : i \in 1..10 }

\* C8 as stated: after the expansion made by handleKeysPress, every member
\* character of every bound group is bound to the handler of the group, and
\* the group token is no key of the table.
C8_GroupsExpanded ==
  [][ (pc = "idle" /\ pc' = "read")
      => \A group \in { capitalLetters, smallLetters, numbers } :
           group \in DOMAIN keysAndCb
             => /\ group \notin DOMAIN keysAndCb'
                /\ \A ch \in GroupMembers(group) :
                     /\ << ch >> \in DOMAIN keysAndCb'
                     /\ keysAndCb'[<< ch >>] = keysAndCb[group] ]_vars

\* The whole feed has been read and no handler call is pending.
FeedRead == nread = Len(stdin) /\ pc \in { "read", "readNext", "done" }

\* C9 as stated: fed exactly the bytes of a bound named multi-byte key, from
\* an empty buffer, the decoder calls the handler of that key exactly once
\* and calls no other handler.
C9_MultiByteKeyDispatched ==
  (stdin \in MultiByteKeys /\ stdin \in DOMAIN keysAndCb /\ FeedRead)
    => calls = << [ id |-> stdin, key |-> stdin ] >>

\* The feed starts with two Escape bytes and exactly these have been read.
EscapeEscapeRead ==
  /\ Len(stdin) >= 2
  /\ SubSeq(stdin, 1, 2) = << ESC, ESC >>
  /\ nread = 2

\* C10: fed (Escape, Escape) from an empty buffer, the decoder calls the
\* handler bound to Escape exactly once if there is one, and otherwise tells
\* the loop to quit, which ends it.
C10_DoubleEscape ==
  EscapeEscapeRead =>
    IF Escape \in DOMAIN keysAndCb
    THEN /\ Len(calls) = 1
         /\ calls[1].id = Escape
         /\ calls[1].key = Escape
    ELSE /\ calls = << >>
         /\ exit
         /\ pc = "done"

\* Witness of C10: the two Escape bytes have been read, with an Escape
\* handler bound that does not quit, and its call has returned.
C10_Witness ==
  /\ EscapeEscapeRead
  /\ Escape \in DOMAIN keysAndCb
  /\ ~keysAndCb[Escape].quits
  /\ pc = "read"
  /\ calls # << >>

\* C11: with a handler bound to Escape, an Escape byte that is not followed
\* by a second Escape byte has that handler called for it: the step that
\* reads the byte after the lone Escape byte calls the Escape handler, and a
\* session, whose Escape handler is handleExit, is then resolved with null.
C11_LoneEscapeHandled ==
  [][ ( /\ pc = "readNext"
        /\ Escape \in DOMAIN keysAndCb
        /\ pc' # pc )
      => ( /\ pc' = "await"
           /\ running'.h = keysAndCb[Escape]
           /\ running'.h.fn = "handleExit" => resolves' = << Null >> ) ]_vars

\* The labels of allItems that match the query text P, in allItems order; the
\* empty text matches every label.
MatchingLabels(P) ==
  LET idx == { i \in 1..Len(Labels) : includes(Labels[i], P) }
      nth(k) == CHOOSE i \in idx : Cardinality({ j \in idx : j < i }) = k - 1
  IN [ k \in 1..Cardinality(idx) |-> Labels[nth(k)] ]

\* The step is a call of handleInput or handleBackspace that produces a query
\* text: handleInput with a placeholder configured, handleBackspace with a
\* query on display.
QueryProduced ==
  /\ pc # "await"
  /\ pc' = "await"
  /\ \/ running'.h.fn = "handleInput" /\ placeHolder # << >>
     \/ running'.h.fn = "handleBackspace" /\ inputField # placeHolder

\* The query text a call of handleInput or handleBackspace has produced: the
\* text on display, or the empty text when handleBackspace has put the
\* placeholder back.
ProducedQuery ==
  IF running'.h.fn = "handleBackspace" /\ inputField' = placeHolder
  THEN << >>
  ELSE inputField'

\* C12: once handleInput or handleBackspace has produced the query text P,
\* visible is exactly the list of the allItems labels that match P, in
\* allItems order (all of them for the empty text), with one displayed line
\* per visible label, and the cursor is 0 whenever visible is not empty.
C12_QueryFilters ==
  [][ QueryProduced =>
        /\ visible' = MatchingLabels(ProducedQuery)
        /\ Len(items') = Len(visible')
        /\ visible' # << >> => selection' = 0 ]_vars

\* Witness of C12: handleInput has produced a two-character query that some
\* labels match and others do not.
C12_Witness ==
  /\ Called("handleInput")
  /\ Len(inputField) = 2
  /\ inputField # placeHolder
  /\ visible # << >>
  /\ Len(visible) < Len(Labels)
  /\ selection = 0

\* C13: a session started with an initial query V (opt.value) has V as its
\* query: after the start the query text on display is V and visible is the
\* list of the labels matching V, so that the keys that follow edit V.
C13_InitialQueryIsQuery ==
  [][ ( /\ pc \in { "idle", "done", "threw" }
        /\ pc' = "read"
        /\ opt'.value # Undefined )
      => ( /\ inputField' = opt'.value
           /\ visible' = MatchingLabels(opt'.value) ) ]_vars

\* The query text of the session: empty while the placeholder is on display.
QueryText == IF inputField = placeHolder THEN << >> ELSE inputField

\* The letters and digits of the keyboard.
LettersAndDigits ==
  GroupMembers(capitalLetters) \cup GroupMembers(smallLetters)
    \cup GroupMembers(numbers)

\* C14: in a session waiting for a key, every letter A..Z, a..z and every
\* digit 0..9 is bound, and the handler the loop calls for it appends exactly
\* that character to the query text and filters the list by the new text.
C14_LettersAndDigitsAppend ==
  (pc = "read" /\ escapeSequence = << >>) =>
    \A ch \in LettersAndDigits :
      /\ << ch >> \in DOMAIN keysAndCb
      /\ LET r == invoke(keysAndCb[<< ch >>], << ch >>, TRUE, Closure, Mutable)
         IN /\ r.inputField = QueryText \o << ch >>
            /\ r.visible = MatchingLabels(r.inputField)

\* C15: in every state of a session whose visible list is not empty,
\* selectNext followed by selectPrev, and selectPrev followed by selectNext,
\* leave the cursor where it was (the list of lines keeps its length between
\* the two calls).
C15_NextPrevInverse ==
  items # << >> =>
    /\ selectPrev(Closure, selectNext(Closure, Mutable)).selection = selection
    /\ selectNext(Closure, selectPrev(Closure, Mutable)).selection = selection
    /\ Len(selectNext(Closure, Mutable).items) = Len(items)
    /\ Len(selectPrev(Closure, Mutable).items) = Len(items)

\* Witness of C15: selectPrev has been called on a list of three lines or
\* more and has left the cursor on the last line.
C15_Witness ==
  /\ Called("selectPrev")
  /\ Len(items) >= 3
  /\ selection = Len(items) - 1

\* The limit of the session is not saturated.
NotSaturated == ~opt.hasLimit \/ Len(selectionBucket) < opt.limit

\* selected after markSelected on the line at the cursor, the cursor brought
\* back to that line by selectPrev when markSelected has moved it, and
\* markUnselected on the same line.
MarkThenUnmark ==
  LET s1 == markSelected(Closure, Mutable)
      s2 == IF s1.selection # selection THEN selectPrev(Closure, s1) ELSE s1
  IN markUnselected(Closure, s2).selectionBucket

\* No label of allItems holds one of the glyphs of the display.
PlainLabels ==
  \A i \in 1..Len(Labels) :
    /\ ~includes(Labels[i], indicator)
    /\ selectedPrefix # << >> => ~includes(Labels[i], selectedPrefix)
    /\ unselectedPrefix # << >> => ~includes(Labels[i], unselectedPrefix)

\* C16 as stated: with a line at the cursor and the limit not saturated,
\* mark then unmark on that line leaves selected as it was before the mark.
\* It is stated for the lists of pairwise distinct labels holding no glyph,
\* where the label read off a line is the label of the item.
C16_MarkUnmarkRestores ==
  ( /\ ~undefinedItem(Mutable)
    /\ NotSaturated
    /\ DistinctLabels
    /\ PlainLabels )
  => MarkThenUnmark = selectionBucket

\* C16 amended: the same, for a line whose label, as markSelected reads it off
\* the line, is not in selected before the mark.
C16_MarkUnmarkRestoresUnselected ==
  ( /\ ~undefinedItem(Mutable)
    /\ NotSaturated
    /\ ~has(selectionBucket, strippedForMark(Closure, Mutable)) )
  => MarkThenUnmark = selectionBucket

\* Witness of C16: a label has been marked, the cursor is now on a line whose
\* label is not selected, and a mark on it adds that label to selected.
C16_Witness ==
  /\ Called("markSelected")
  /\ ~undefinedItem(Mutable)
  /\ NotSaturated
  /\ selectionBucket # << >>
  /\ ~has(selectionBucket, strippedForMark(Closure, Mutable))
  /\ Len(markSelected(Closure, Mutable).selectionBucket)
       = Len(selectionBucket) + 1

\* The cursor of the session: an index into visible, and undefined while
\* visible is empty.
Cursor ==
  IF visible = << >>
  THEN [ defined |-> FALSE, index |-> 0 ]
  ELSE [ defined |-> TRUE, index |-> selection ]

\* The step is the call of a handler in a case where the operation is a
\* no-op: Backspace while the placeholder is on display, '+' when selected
\* has reached the limit, a move of the cursor while visible is empty.
NoOpCall ==
  /\ pc # "await"
  /\ pc' = "await"
  /\ \/ running'.h.fn = "handleBackspace" /\ inputField = placeHolder
     \/ /\ running'.h.fn = "markSelected"
        /\ opt.hasLimit
        /\ Len(selectionBucket) >= opt.limit
     \/ running'.h.fn \in { "selectNext", "selectPrev" } /\ visible = << >>

\* C17: each no-op leaves the query text, the visible list and its displayed
\* lines, the cursor and selected as they were, and throws nothing.
C17_NoOpsChangeNothing ==
  [][ NoOpCall =>
        /\ inputField' = inputField
        /\ visible' = visible
        /\ items' = items
        /\ Cursor' = Cursor
        /\ selectionBucket' = selectionBucket
        /\ resolves' = resolves
        /\ ~running'.threw ]_vars

\* Witness of C17: selectNext has been called while a query that no label
\* matches has emptied the visible list of a non-empty list.
C17_Witness ==
  /\ Called("selectNext")
  /\ buildItemsList # << >>
  /\ visible = << >>
  /\ inputField # placeHolder

\* The session was started by filterItemFromList or chooseItemFromList.
SingleSelect ==
  /\ pc # "idle"
  /\ opt.hasLimit
  /\ opt.limit = 1
  /\ opt.selectedPrefix = << >>
  /\ opt.unselectedPrefix = << >>

\* C18 as stated: in a single-select session selected is empty at all times,
\* Enter on a non-empty visible list resolves the session with exactly one
\* ListItem, the allItems entry at the cursor, and Escape Escape resolves it
\* with null.
C18_SingleSelectOneItem ==
  SingleSelect =>
    /\ selectionBucket = << >>
    /\ (Called("handleSubmit") /\ visible # << >>)
         => /\ Len(resolves) = 1
            /\ ~resolves[1].null
            /\ Len(resolves[1].items) = 1
            /\ resolves[1].items[1].text = visible[selection + 1]
            /\ \E i \in 1..Len(buildItemsList) :
                 buildItemsList[i] = resolves[1].items[1]
    /\ Called("handleExit") => resolves = << Null >>

\* C19: handleKeysPress calls the handlers one at a time and in the order in
\* which their tokens are completed, once per token: while a called handler,
\* synchronous or async, has not returned, no byte is read and no handler is
\* called, and the read of the byte that completes a token calls exactly the
\* handler the table binds to it, once, with that token.
C19_OneHandlerAtATime ==
  [][ /\ running # NoCall
        => ( /\ nread' = nread
             /\ calls' = calls
             /\ running' = NoCall )
      /\ (calls' # calls \/ running' # running)
        => ( /\ running = NoCall \/ running' = NoCall
             /\ running' # NoCall
                  => /\ nread' = nread + 1
                     /\ calls' = Append(calls, [ id |-> running'.h.id,
                                                 key |-> running'.key ])
                     /\ running'.key = escapeSequence'
                     /\ running'.h =
                          keysAndCb[IF running'.at = "default"
                                    THEN default ELSE running'.key] ) ]_vars

\* Witness of C19: an async handler has been called for the second token of
\* the feed and has not returned yet, with a byte of the feed still unread.
C19_Witness ==
  /\ pc = "await"
  /\ running.h.fn = "asyncSpy"
  /\ Len(calls) = 2
  /\ nread < Len(stdin)

\* C20: once a handler has called quit() the loop lets it return and stops:
\* the step after the call is the handler's return, the return of a handler
\* that has called quit() ends the loop, on the match path and on the
\* double-Escape path, and from then on no byte is read and no handler is
\* called.
C20_QuitStopsLoop ==
  [][ /\ (exit /\ running # NoCall)
        => ( /\ running' = NoCall
             /\ nread' = nread
             /\ calls' = calls )
      /\ (exit' /\ running # NoCall /\ running' = NoCall)
        => pc' = "done"
      /\ (exit /\ running = NoCall)
        => ( /\ nread' = nread
             /\ calls' = calls
             /\ running' = NoCall
             /\ pc' = pc ) ]_vars

\* Witness of C20: the handler bound to Escape has called quit() on the
\* double-Escape path and has returned, the loop has ended, and a byte of the
\* feed is left unread.
C20_Witness ==
  /\ pc = "done"
  /\ exit
  /\ running = NoCall
  /\ calls # << >>
  /\ calls[Len(calls)].id = Escape
  /\ nread < Len(stdin)

\* The tasks of the call that have been started and have not settled.
Running == { i \in 1..Len(queue.task) : queue.task[i] = "pending" }

\* C21: at no moment of a call of promiseQueueWithLimit are more than
\* this.pLimit tasks started and not yet settled, whatever the number of task
\* factories and the positive limit.
C21_AtMostLimitRunning == Cardinality(Running) <= queue.pLimit

\* Witness of C21: the loop has waited for a task, gone on after it was
\* fulfilled and started a further task, and waits again with this.pLimit
\* tasks running.
C21_Witness ==
  /\ queue.pc = "race"
  /\ queue.pLimit = 2
  /\ Cardinality(Running) = 2
  /\ \E i \in 1..Len(queue.task) : queue.task[i] = "fulfilled"

C22_CursorInRange ==
  visible # << >> =>
    /\ selection # NaN
    /\ selection \in 0..(Len(visible) - 1)
    /\ Len(items) = Len(visible)

\* Witness of C22: selectNext has been called on the last line of a list of
\* two lines or more and has wrapped the cursor to the first line.
C22_Witness ==
  /\ Called("selectNext")
  /\ Len(visible) >= 2
  /\ selection = 0
  /\ selectionBucket = << >>
  /\ inputField # placeHolder

\* C23 as stated: every member of selected is a label of allItems, and a call
\* of handleInput or handleBackspace leaves selected as it was.
C23_SelectedAreLabels ==
  [][ /\ \A i \in 1..Len(selectionBucket') :
           \E j \in 1..Len(buildItemsList') :
             buildItemsList'[j].text = selectionBucket'[i]
      /\ (pc' = "await" /\ running'.h.fn \in { "handleInput", "handleBackspace" })
           => selectionBucket' = selectionBucket ]_vars

\* C24 as stated: every displayed line, whatever its label and whether or not
\* it is the cursor line or a selected line, strips back to exactly the label
\* it was built for, by the stripping of handleSubmit and markUnselected and
\* by the stripping of markSelected.
C24_LineStripsToLabel ==
  \A k \in 1..Len(items) :
    LET atK == [Mutable EXCEPT !.selection = k - 1]
    IN /\ strippedForSubmit(Closure, atK) = visible[k]
       /\ strippedForMark(Closure, atK) = visible[k]

\* C25 as stated: no call of a handler bound by a session throws, whatever
\* the visible list, the cursor and selected are, so the key loop never ends
\* with an error.
C25_NoHandlerThrows == ~running.threw /\ pc # "threw"

\* The step reads a byte at the match of lines 329-336 and the buffer with
\* that byte is no key of the table (and not the lone Escape byte, which is
\* never matched against the table).
NoMatchRead ==
  /\ pc = "read"
  /\ nread < Len(stdin)
  /\ nread' = nread + 1
  /\ escapeSequence \o << stdin[nread + 1] >> # Escape
  /\ escapeSequence \o << stdin[nread + 1] >> \notin DOMAIN keysAndCb

\* C26: when the buffer matches no bound token, the default handler, if one
\* is bound, is called exactly once with the buffer, and otherwise no handler
\* is called; nothing is thrown, and the loop goes on to read the next byte
\* with an empty buffer.
C26_DefaultOrDrop ==
  [][ /\ NoMatchRead
        => IF default \in DOMAIN keysAndCb
           THEN /\ pc' = "await"
                /\ running'.h = keysAndCb[default]
                /\ running'.at = "default"
                /\ ~running'.threw
                /\ calls' = Append(calls,
                     [ id |-> keysAndCb[default].id,
                       key |-> escapeSequence \o << stdin[nread + 1] >> ])
           ELSE /\ calls' = calls
                /\ running' = NoCall
                /\ escapeSequence' = << >>
                /\ pc' = "read"
      /\ (pc = "await" /\ running.at = "default" /\ ~running.threw)
        => /\ calls' = calls
           /\ escapeSequence' = << >>
           /\ pc' = "read" ]_vars

\* Witness of C26: the default handler has been called once, with a buffer of
\* three bytes that is no key of the table.
C26_Witness ==
  /\ pc = "await"
  /\ running.at = "default"
  /\ Len(running.key) = 3
  /\ Len(calls) = 1
  /\ calls[1].key = running.key

\* C27 as stated: the buffer is empty after every resolved event: whenever a
\* handler call returns and the loop goes on, on the match path, the default
\* path and the double-Escape path, the next byte is read into an empty
\* buffer.
C27_BufferEmptyAfterEvent ==
  [][ (pc = "await" /\ pc' = "read") => escapeSequence' = << >> ]_vars

\* C28 as stated: a session started without the indicator, selectedPrefix,
\* unselectedPrefix or prompt option uses the documented default for it,
\* whatever sessions were run before.
C28_DefaultsEverySession ==
  [][ (pc \in { "idle", "done", "threw" } /\ pc' = "read")
      => /\ opt'.indicator = Undefined => indicator' = DefaultIndicator
         /\ opt'.selectedPrefix = Undefined
              => selectedPrefix' = DefaultSelectedPrefix
         /\ opt'.unselectedPrefix = Undefined
              => unselectedPrefix' = DefaultUnselectedPrefix
         /\ opt'.prompt = Undefined => prompt' = DefaultPrompt ]_vars

\* The characters typed in the statement of C29.
TypedChars == { << "a" >>, << "A" >> }

\* C29 as stated, for a session with a placeholder text: once a character has
\* been typed the input field holds typed text q, also when q equals the
\* placeholder text; a further character c then gives q followed by c, and
\* Backspace gives q without its last character (the empty query, shown as
\* the placeholder over the whole list, when q is one character long).
C29_TypedTextIsNotPlaceholder ==
  (pc = "read" /\ placeHolder # << >>) =>
    \A c1 \in TypedChars, c2 \in TypedChars :
      LET s1 == handleInput(Closure, Mutable, c1)
          q == s1.inputField
          s2 == handleInput(Closure, s1, c2)
          s3 == handleBackspace(Closure, s1)
      IN /\ q # << >>
         /\ q[Len(q)] = c1[1]
         /\ s2.inputField = q \o c2
         /\ IF Len(q) = 1
            THEN s3.inputField = placeHolder /\ s3.visible = MatchingLabels(<< >>)
            ELSE s3.inputField = dropLast(q)

====
